---- MODULE Spec2Model ----
(***************************************************************************)
(* files-to-prompt: the file selection and filtering engine of cli.py.     *)
(*                                                                         *)
(* Strings of the program (names, globs, paths, extensions) are sequences  *)
(* of one-character strings, so that fnmatch, startswith, endswith, strip, *)
(* os.path.join and sorted() are computed on characters as Python does.    *)
(***************************************************************************)
EXTENDS Integers, Sequences, FiniteSets, TLC

(***************************************************************************)
(* Bounds of the model.                                                    *)
(***************************************************************************)
\* longest list of path arguments and of paths read from standard input
MaxRoots == 2
\* most .gitignore files present in the tree at once
MaxIgnoreFiles == 1
\* most files of the tree that do not decode as text
MaxBinary == 1
\* most paths whose state differs from REF
MaxChanged == 2

(***************************************************************************)
(* Characters and strings.                                                 *)
(***************************************************************************)
\* code point of a character: the order of Python's str comparison
Ord(c) ==
    CASE c = " " -> 32 [] c = "#" -> 35 [] c = "*" -> 42 [] c = "." -> 46
      [] c = "/" -> 47 [] c = "?" -> 63
      [] c = "a" -> 97 [] c = "b" -> 98 [] c = "d" -> 100 [] c = "e" -> 101
      [] c = "g" -> 103 [] c = "i" -> 105 [] c = "k" -> 107 [] c = "m" -> 109
      [] c = "n" -> 110 [] c = "o" -> 111 [] c = "p" -> 112 [] c = "r" -> 114
      [] c = "s" -> 115 [] c = "t" -> 116 [] c = "x" -> 120 [] c = "y" -> 121
      [] c = "z" -> 122

\* Python's s1 < s2 on str: lexicographic by code point, a proper prefix first
RECURSIVE StrLess(_, _)
StrLess(s1, s2) ==
    IF s2 = <<>> THEN FALSE
    ELSE IF s1 = <<>> THEN TRUE
    ELSE IF Head(s1) = Head(s2) THEN StrLess(Tail(s1), Tail(s2))
    ELSE Ord(Head(s1)) < Ord(Head(s2))

\* str.startswith(prefix)
startswith(s, prefix) ==
    /\ Len(prefix) <= Len(s)
    /\ SubSeq(s, 1, Len(prefix)) = prefix

\* str.endswith(suffix) for one suffix
EndsWithOne(s, suffix) ==
    /\ Len(suffix) <= Len(s)
    /\ SubSeq(s, Len(s) - Len(suffix) + 1, Len(s)) = suffix

\* str.endswith(tuple): some element of the tuple is a suffix
endswith(s, suffixes) ==
    \E k \in 1..Len(suffixes) : EndsWithOne(s, suffixes[k])

\* str.strip(): leading and trailing whitespace removed
RECURSIVE LStrip(_)
LStrip(s) ==
    IF s # <<>> /\ Head(s) = " " THEN LStrip(Tail(s)) ELSE s

RECURSIVE RStrip(_)
RStrip(s) ==
    IF s # <<>> /\ s[Len(s)] = " " THEN RStrip(SubSeq(s, 1, Len(s) - 1)) ELSE s

strip(s) == RStrip(LStrip(s))

\* fnmatch.fnmatch(name, pat) on POSIX (normcase is the identity): the whole
\* name against a glob in which * is any run of characters and ? any one
\* character.  The alphabet of the model holds no [ so no character class.
RECURSIVE fnmatch(_, _)
fnmatch(name, pat) ==
    IF pat = <<>> THEN name = <<>>
    ELSE IF Head(pat) = "*"
         THEN \/ fnmatch(name, Tail(pat))
              \/ name # <<>> /\ fnmatch(Tail(name), pat)
    ELSE IF Head(pat) = "?"
         THEN name # <<>> /\ fnmatch(Tail(name), Tail(pat))
    ELSE name # <<>> /\ Head(name) = Head(pat) /\ fnmatch(Tail(name), Tail(pat))

\* os.path.join(a, b) for a relative b
join(a, b) == IF a = <<>> THEN b ELSE a \o <<"/">> \o b

\* position of the last "/" of p, 0 when there is none
LastSep(p) ==
    IF \E k \in 1..Len(p) : p[k] = "/"
    THEN CHOOSE k \in 1..Len(p) :
             p[k] = "/" /\ \A j \in (k + 1)..Len(p) : p[j] # "/"
    ELSE 0

\* os.path.basename(p)
basename(p) == SubSeq(p, LastSep(p) + 1, Len(p))

\* os.path.dirname(p) for a path without a trailing or doubled separator
dirname(p) == IF LastSep(p) = 0 THEN <<>> ELSE SubSeq(p, 1, LastSep(p) - 1)

\* str.split("/")
RECURSIVE SplitSep(_)
SplitSep(p) ==
    IF \A k \in 1..Len(p) : p[k] # "/" THEN <<p>>
    ELSE LET k == CHOOSE i \in 1..Len(p) :
                      p[i] = "/" /\ \A j \in 1..(i - 1) : p[j] # "/"
         IN  <<SubSeq(p, 1, k - 1)>> \o SplitSep(SubSeq(p, k + 1, Len(p)))

\* sorted(s) on a list of str: insertion into an ascending list
RECURSIVE Insert(_, _)
Insert(x, s) ==
    IF s = <<>> THEN <<x>>
    ELSE IF StrLess(Head(s), x) THEN <<Head(s)>> \o Insert(x, Tail(s))
    ELSE <<x>> \o s

\* the list as it is given, in place of sorted()
unsorted(s) == s

RECURSIVE sorted(_)
sorted(s) == IF s = <<>> THEN <<>> ELSE Insert(Head(s), sorted(Tail(s)))

\* the elements of a sequence
Range(s) == {s[k] : k \in 1..Len(s)}

(***************************************************************************)
(* The file system the program runs on.  The current directory holds one   *)
(* directory r; every directory may hold a .gitignore file.  Which         *)
(* .gitignore files exist, what they hold and which files do not decode    *)
(* are inputs (gitignore_files, binary).                                   *)
(*                                                                         *)
(*   r/  a.py  xpy  n.md  .n.md  [.gitignore]                              *)
(*   r/a/  skip  k.py  [.gitignore]                                        *)
(*   r/a/d/  skip  k.py                                                    *)
(*   r/a/d/.g/  k.py  [.gitignore]                                         *)
(*   r/b/  skip  k.py                                                      *)
(*   r/b/m.md/  k.py  n.md                                                 *)
(*   [.gitignore]                                                          *)
(***************************************************************************)
NoNode == 0
Cwd == 1

File(nm, par) == [name |-> nm, kind |-> "file", parent |-> par]
Dir(nm, par) == [name |-> nm, kind |-> "dir", parent |-> par]

GitignoreName == <<".", "g", "i", "t", "i", "g", "n", "o", "r", "e">>

Tree ==
    << Dir(<<>>, NoNode),                        \* 1  the current directory
       Dir(<<"r">>, 1),                          \* 2  r
       File(<<"a", ".", "p", "y">>, 2),          \* 3  r/a.py
       File(<<"x", "p", "y">>, 2),               \* 4  r/xpy
       File(<<"n", ".", "m", "d">>, 2),          \* 5  r/n.md
       File(<<".", "n", ".", "m", "d">>, 2),     \* 6  r/.n.md
       Dir(<<"a">>, 2),                          \* 7  r/a
       File(<<"s", "k", "i", "p">>, 7),          \* 8  r/a/skip
       File(<<"k", ".", "p", "y">>, 7),          \* 9  r/a/k.py
       Dir(<<"d">>, 7),                          \* 10 r/a/d
       File(<<"s", "k", "i", "p">>, 10),         \* 11 r/a/d/skip
       File(<<"k", ".", "p", "y">>, 10),         \* 12 r/a/d/k.py
       Dir(<<".", "g">>, 10),                    \* 13 r/a/d/.g
       File(<<"k", ".", "p", "y">>, 13),         \* 14 r/a/d/.g/k.py
       Dir(<<"b">>, 2),                          \* 15 r/b
       File(<<"s", "k", "i", "p">>, 15),         \* 16 r/b/skip
       File(<<"k", ".", "p", "y">>, 15),         \* 17 r/b/k.py
       Dir(<<"m", ".", "m", "d">>, 15),          \* 18 r/b/m.md
       File(<<"k", ".", "p", "y">>, 18),         \* 19 r/b/m.md/k.py
       File(<<"n", ".", "m", "d">>, 18),         \* 20 r/b/m.md/n.md
       File(GitignoreName, 1),                   \* 21 .gitignore
       File(GitignoreName, 2),                   \* 22 r/.gitignore
       File(GitignoreName, 7),                   \* 23 r/a/.gitignore
       File(GitignoreName, 13) >>                \* 24 r/a/d/.g/.gitignore

Nodes == DOMAIN Tree
IgnoreSlots == {n \in Nodes : Tree[n].name = GitignoreName}
DirNodes == {n \in Nodes : Tree[n].kind = "dir"}

\* the path of a node relative to the current directory
RECURSIVE PathRel(_)
PathRel(n) ==
    IF Tree[n].parent = NoNode THEN <<>>
    ELSE join(PathRel(Tree[n].parent), Tree[n].name)

PathOf == [n \in Nodes |-> PathRel(n)]

\* contents a .gitignore file is given, as its lines without the newline
Absent == [present |-> FALSE, lines |-> <<>>]
Present(ls) == [present |-> TRUE, lines |-> ls]
IgnoreContents ==
    { << <<"s", "k", "i", "p">> >>,
      << <<"#", "x">>, <<"k", ".", "p", "y">>, <<>>, <<" ">>,
         <<" ", "*", "d", "/", " ">>, <<" ", "#", "k">> >>,
      << <<"*", ".", "m", "d">> >> }

\* the files that may fail to decode
BinaryCandidates == {3, 6, 17}

(***************************************************************************)
(* State.                                                                  *)
(***************************************************************************)
VARIABLES
    cfg,              \* the parameters of cli(): arguments, options, stdin
    gitignore_files,  \* file system: each .gitignore: whether it exists, its lines
    binary,           \* file system: the files that raise UnicodeDecodeError
    git,              \* what the git commands answer in this repository
    listing_rev,      \* file system: whether os.scandir lists in descending order
    pc,               \* where cli() is
    paths,            \* cli: paths, once stdin_paths are appended
    i,                \* cli: position of the for loop over paths
    gitignore_rules,  \* cli: the list shared by every process_path call
    stack,            \* os.walk: directories still to yield, next first
    rels,             \* cli --since: the filtered, sorted changed paths
    out,              \* lines given to writer
    err,              \* lines written to the error stream
    global_index,     \* the module global numbering XML documents
    exit_code,        \* how the invocation ended; -1 while it runs
    fp,               \* cli: the file of --output: unopened, open or closed
    git_calls,        \* the git commands run so far, in order
    later,            \* the process: parameters of the calls of cli() still to come
    prev              \* the process: what the previous call of cli() left

vars == << cfg, gitignore_files, binary, git, listing_rev, pc, paths, i,
           gitignore_rules, stack, rels, out, err, global_index, exit_code,
           fp, git_calls, later, prev >>

\* what a call of cli() reads and does not change
inputs == << cfg, gitignore_files, binary, git, listing_rev, later, prev >>

(***************************************************************************)
(* File system queries.                                                    *)
(***************************************************************************)
NodeExists(n) == n \in IgnoreSlots => gitignore_files[n].present

\* the current directory as an absolute path
CwdAbs == <<"/", "w">>

\* a path as seen from the current directory
FromCwd(p) ==
    IF p = CwdAbs THEN <<>>
    ELSE IF startswith(p, CwdAbs \o <<"/">>)
         THEN SubSeq(p, Len(CwdAbs) + 2, Len(p))
    ELSE p

\* the node a path names, NoNode when nothing is there
Lookup(p) ==
    IF \E n \in Nodes : PathOf[n] = FromCwd(p) /\ NodeExists(n)
    THEN CHOOSE n \in Nodes : PathOf[n] = FromCwd(p) /\ NodeExists(n)
    ELSE NoNode

exists(p) == Lookup(p) # NoNode
isfile(p) == Lookup(p) # NoNode /\ Tree[Lookup(p)].kind = "file"
isdir(p) == Lookup(p) # NoNode /\ Tree[Lookup(p)].kind = "dir"

\* the entries of a directory, in ascending node order
RECURSIVE ListFrom(_, _, _)
ListFrom(d, kind, n) ==
    IF n > Len(Tree) THEN <<>>
    ELSE (IF Tree[n].parent = d /\ Tree[n].kind = kind /\ NodeExists(n)
          THEN <<Tree[n].name>> ELSE <<>>) \o ListFrom(d, kind, n + 1)

RECURSIVE Reverse(_)
Reverse(s) == IF s = <<>> THEN <<>> ELSE Reverse(Tail(s)) \o <<Head(s)>>

\* os.scandir gives the entries in an order the file system chooses: either
\* ascending or descending node order here, the same every time the
\* directory is listed
Listing(p, kind, rev) ==
    LET l == ListFrom(Lookup(p), kind, 1) IN IF rev THEN Reverse(l) ELSE l

(***************************************************************************)
(* Ignore rules.                                                           *)
(***************************************************************************)
\* a test that consults the first rule alone
should_ignore_first_rule(path, rules) ==
    /\ rules # <<>>
    /\ \/ fnmatch(basename(path), Head(rules))
       \/ isdir(path) /\ fnmatch(basename(path) \o <<"/">>, Head(rules))

\* for rule in gitignore_rules: the two tests in turn, True at the first
\* that succeeds, False when the rules are used up.  name is
\* os.path.basename(path) and is_dir is os.path.isdir(path), which are the
\* same at every turn of the loop.
RECURSIVE should_ignore_loop(_, _, _)
should_ignore_loop(name, is_dir, rules) ==
    IF rules = <<>> THEN FALSE
    ELSE IF fnmatch(name, Head(rules)) THEN TRUE
    ELSE IF is_dir /\ fnmatch(name \o <<"/">>, Head(rules)) THEN TRUE
    ELSE should_ignore_loop(name, is_dir, Tail(rules))

should_ignore(path, rules) ==
    should_ignore_loop(basename(path), isdir(path), rules)

read_gitignore(path) ==
    LET gitignore_path == join(path, GitignoreName)
        KeepLine(line) == strip(line) # <<>> /\ ~startswith(line, <<"#">>)
        lines == gitignore_files[Lookup(gitignore_path)].lines
    IN  IF isfile(gitignore_path)
        THEN [k \in 1..Len(SelectSeq(lines, KeepLine)) |->
                 strip(SelectSeq(lines, KeepLine)[k])]
        ELSE <<>>

(***************************************************************************)
(* Renderers.  A line given to writer is a record: what the line is, the   *)
(* path of the document it belongs to, the document index it shows, and    *)
(* for a content line where the content was read and whether it went       *)
(* through add_line_numbers.                                               *)
(***************************************************************************)
Line(k, path, idx) ==
    [k |-> k, path |-> path, idx |-> idx, src |-> "", numbered |-> FALSE]

ContentLine(path, src, line_numbers) ==
    [k |-> "content", path |-> path, idx |-> 0, src |-> src,
     numbered |-> line_numbers]

NoPath == <<>>
OpenDocuments == Line("<documents>", NoPath, 0)
CloseDocuments == Line("</documents>", NoPath, 0)

\* the languages of EXT_TO_LANG
EXT_TO_LANG(ext) ==
    CASE ext = <<"p", "y">> -> "python"
      [] ext = <<"c">> -> "c"
      [] ext = <<"c", "p", "p">> -> "cpp"
      [] ext = <<"j", "a", "v", "a">> -> "java"
      [] ext = <<"j", "s">> -> "javascript"
      [] ext = <<"t", "s">> -> "typescript"
      [] ext = <<"h", "t", "m", "l">> -> "html"
      [] ext = <<"c", "s", "s">> -> "css"
      [] ext = <<"x", "m", "l">> -> "xml"
      [] ext = <<"j", "s", "o", "n">> -> "json"
      [] ext = <<"y", "a", "m", "l">> -> "yaml"
      [] ext = <<"y", "m", "l">> -> "yaml"
      [] ext = <<"s", "h">> -> "bash"
      [] ext = <<"r", "b">> -> "ruby"
      [] OTHER -> ""

\* path.split(".")[-1]
LastDotPart(path) ==
    IF \E k \in 1..Len(path) : path[k] = "."
    THEN LET k == CHOOSE j \in 1..Len(path) :
                      path[j] = "." /\ \A m \in (j + 1)..Len(path) : path[m] # "."
         IN  SubSeq(path, k + 1, Len(path))
    ELSE path

print_default(path, src, line_numbers) ==
    << Line("path", path, 0),
       Line("---", path, 0),
       ContentLine(path, src, line_numbers),
       Line("", path, 0),
       Line("---", path, 0) >>

\* the lines of print_as_xml when global_index is idx; it leaves idx + 1
print_as_xml(path, src, line_numbers, idx) ==
    << Line("<document index>", path, idx),
       Line("<source>", path, 0),
       Line("<document_content>", path, 0),
       ContentLine(path, src, line_numbers),
       Line("</document_content>", path, 0),
       Line("</document>", path, 0) >>

\* the contents of the model hold no backticks: the fence is three of them
print_as_markdown(path, src, line_numbers) ==
    << Line("path", path, 0),
       [Line("fence lang", path, 0) EXCEPT !.src = EXT_TO_LANG(LastDotPart(path))],
       ContentLine(path, src, line_numbers),
       Line("fence", path, 0) >>

print_path(path, src, cxml, markdown, line_numbers, idx) ==
    IF cxml THEN print_as_xml(path, src, line_numbers, idx)
    ELSE IF markdown THEN print_as_markdown(path, src, line_numbers)
    ELSE print_default(path, src, line_numbers)

\* the streams and the counter, as one value the loops thread through
Streams(o, e, idx) == [out |-> o, err |-> e, idx |-> idx]

Warning(kind, path) == [k |-> kind, path |-> path]

\* a reading that writes the path header before it reads the file
ReadAndPrint_header_first(path, st) ==
    IF Lookup(path) \in binary
    THEN Streams(Append(st.out, Line("path", path, 0)),
                 Append(st.err, Warning("UnicodeDecodeError", path)),
                 st.idx)
    ELSE Streams(st.out \o print_path(path, "disk", cfg.claude_xml, cfg.markdown,
                                      cfg.line_numbers, st.idx),
                 st.err,
                 IF cfg.claude_xml THEN st.idx + 1 ELSE st.idx)

\* with open(path) as f: print_path(writer, path, f.read(), ...), and the
\* except UnicodeDecodeError clause around it.  f.read() is evaluated before
\* print_path is called, so a file that does not decode writes no line.
ReadAndPrint(path, st) ==
    IF Lookup(path) \in binary
    THEN Streams(st.out,
                 Append(st.err, Warning("UnicodeDecodeError", path)),
                 st.idx)
    ELSE Streams(st.out \o print_path(path, "disk", cfg.claude_xml, cfg.markdown,
                                      cfg.line_numbers, st.idx),
                 st.err,
                 IF cfg.claude_xml THEN st.idx + 1 ELSE st.idx)

\* a file root that is dropped when its name is hidden
process_path_file_hidden_checked(path, st) ==
    IF ~cfg.include_hidden /\ startswith(basename(path), <<".">>)
    THEN st
    ELSE ReadAndPrint(path, st)

\* if os.path.isfile(path): the file is read and printed, and process_path
\* returns; no filter is consulted
process_path_file(path, st) == ReadAndPrint(path, st)

\* for file in sorted(files): ... of process_path
RECURSIVE EmitFiles(_, _, _)
EmitFiles(root, files, st) ==
    IF files = <<>> THEN st
    ELSE EmitFiles(root, Tail(files), ReadAndPrint(join(root, Head(files)), st))

(***************************************************************************)
(* process_path: the filters of one os.walk iteration.                     *)
(***************************************************************************)
\* [x for x in entries if not x.startswith(".")] unless include_hidden
hidden_filter(entries) ==
    IF ~cfg.include_hidden
    THEN SelectSeq(entries, LAMBDA x : ~startswith(x, <<".">>))
    ELSE entries

\* gitignore_rules after gitignore_rules.extend(read_gitignore(root))
extend_rules(root, rules) ==
    IF ~cfg.ignore_gitignore THEN rules \o read_gitignore(root) ELSE rules

\* a filter that consults the rules of the visited directory alone
gitignore_filter_own_rules(root, entries, rules) ==
    IF ~cfg.ignore_gitignore
    THEN SelectSeq(entries,
                   LAMBDA x : ~should_ignore(join(root, x), read_gitignore(root)))
    ELSE entries

\* [x for x in entries if not should_ignore(os.path.join(root, x), rules)]
gitignore_filter(root, entries, rules) ==
    IF ~cfg.ignore_gitignore
    THEN SelectSeq(entries, LAMBDA x : ~should_ignore(join(root, x), rules))
    ELSE entries

MatchesPattern(x) ==
    \E k \in 1..Len(cfg.ignore_patterns) : fnmatch(x, cfg.ignore_patterns[k])

\* a directory filter that takes no account of ignore_files_only
pattern_filter_dirs_always(dirs) ==
    IF cfg.ignore_patterns # <<>>
    THEN SelectSeq(dirs, LAMBDA d : ~MatchesPattern(d))
    ELSE dirs

\* the dirs[:] assignment under "if ignore_patterns: if not ignore_files_only:"
pattern_filter_dirs(dirs) ==
    IF cfg.ignore_patterns # <<>> /\ ~cfg.ignore_files_only
    THEN SelectSeq(dirs, LAMBDA d : ~MatchesPattern(d))
    ELSE dirs

\* the files assignment under "if ignore_patterns:"
pattern_filter_files(files) ==
    IF cfg.ignore_patterns # <<>>
    THEN SelectSeq(files, LAMBDA f : ~MatchesPattern(f))
    ELSE files

\* an extension filter that wants a dot before the extension
extension_filter_dotted(files) ==
    IF cfg.extensions # <<>>
    THEN SelectSeq(files,
                   LAMBDA f : \E k \in 1..Len(cfg.extensions) :
                                  EndsWithOne(f, <<".">> \o cfg.extensions[k]))
    ELSE files

\* files = [f for f in files if f.endswith(extensions)] under "if extensions:"
extension_filter(files) ==
    IF cfg.extensions # <<>>
    THEN SelectSeq(files, LAMBDA f : endswith(f, cfg.extensions))
    ELSE files

\* the directories os.walk goes on to, in listing order
walk_dirs(root, rev, rules) ==
    pattern_filter_dirs(
        gitignore_filter(root, hidden_filter(Listing(root, "dir", rev)), rules))

\* the files the iteration prints, before sorted()
walk_files(root, rev, rules) ==
    extension_filter(pattern_filter_files(
        gitignore_filter(root, hidden_filter(Listing(root, "file", rev)), rules)))

JoinAll(root, names) == [k \in 1..Len(names) |-> join(root, names[k])]

(***************************************************************************)
(* cli().                                                                  *)
(***************************************************************************)
\* an entry of cli() that leaves gitignore_rules as the last call left it
Start_keeps_rules ==
    /\ pc = "start"
    /\ IF \E k \in 1..Len(cfg.args) : ~exists(cfg.args[k])
       THEN /\ pc' = "failed"
            /\ exit_code' = 2
            /\ UNCHANGED << paths, i, global_index, fp >>
       ELSE /\ global_index' = 1
            /\ paths' = cfg.args \o cfg.stdin_paths
            /\ i' = 1
            /\ pc' = IF cfg.since_ref THEN "since" ELSE "roots"
            /\ fp' = IF ~cfg.since_ref /\ cfg.output_file THEN "open" ELSE fp
            /\ UNCHANGED exit_code
    /\ UNCHANGED << inputs, gitignore_rules, stack, rels, out, err, git_calls >>

\* an entry of cli() that leaves global_index as the last call left it
Start_keeps_index ==
    /\ pc = "start"
    /\ IF \E k \in 1..Len(cfg.args) : ~exists(cfg.args[k])
       THEN /\ pc' = "failed"
            /\ exit_code' = 2
            /\ UNCHANGED << paths, i, gitignore_rules, fp >>
       ELSE /\ paths' = cfg.args \o cfg.stdin_paths
            /\ gitignore_rules' = <<>>
            /\ i' = 1
            /\ pc' = IF cfg.since_ref THEN "since" ELSE "roots"
            /\ fp' = IF ~cfg.since_ref /\ cfg.output_file THEN "open" ELSE fp
            /\ UNCHANGED exit_code
    /\ UNCHANGED << inputs, stack, rels, out, err, git_calls, global_index >>

\* click.Path(exists=True) on the arguments, then lines 379-387 and, without
\* --since, lines 471-476
Start ==
    /\ pc = "start"
    /\ IF \E k \in 1..Len(cfg.args) : ~exists(cfg.args[k])
       THEN /\ pc' = "failed"
            /\ exit_code' = 2
            /\ UNCHANGED << paths, i, gitignore_rules, global_index, fp >>
       ELSE /\ global_index' = 1
            /\ paths' = cfg.args \o cfg.stdin_paths
            /\ gitignore_rules' = <<>>
            /\ i' = 1
            /\ pc' = IF cfg.since_ref THEN "since" ELSE "roots"
            /\ fp' = IF ~cfg.since_ref /\ cfg.output_file THEN "open" ELSE fp
            /\ UNCHANGED exit_code
    /\ UNCHANGED << inputs, stack, rels, out, err, git_calls >>

\* one turn of "for path in paths": the existence check, the parent's
\* .gitignore, the opening wrapper, and process_path up to its first
\* os.walk iteration (a file root is printed here)
NextRoot ==
    /\ pc = "roots"
    /\ i <= Len(paths)
    /\ LET path == paths[i]
           rules == IF ~cfg.ignore_gitignore
                    THEN gitignore_rules \o read_gitignore(dirname(path))
                    ELSE gitignore_rules
           opened == IF cfg.claude_xml /\ path = paths[1]
                     THEN Append(out, OpenDocuments) ELSE out
           st == process_path_file(path, Streams(opened, err, global_index))
       IN  IF ~exists(path)
           THEN /\ pc' = "failed"
                /\ exit_code' = 2
                /\ UNCHANGED << i, gitignore_rules, stack, out, err, global_index >>
           ELSE /\ gitignore_rules' = rules
                /\ IF isfile(path)
                   THEN /\ out' = st.out
                        /\ err' = st.err
                        /\ global_index' = st.idx
                        /\ i' = i + 1
                        /\ UNCHANGED << pc, stack >>
                   ELSE /\ out' = opened
                        /\ stack' = <<path>>
                        /\ pc' = "walk"
                        /\ UNCHANGED << i, err, global_index >>
                /\ UNCHANGED exit_code
    /\ UNCHANGED << inputs, paths, rels, fp, git_calls >>

\* one iteration of "for root, dirs, files in os.walk(path)"
WalkDir ==
    /\ pc = "walk"
    /\ stack # <<>>
    /\  LET root == Head(stack)
            rules == extend_rules(root, gitignore_rules)
            dirs == walk_dirs(root, listing_rev, rules)
            files == walk_files(root, listing_rev, rules)
            st == EmitFiles(root, sorted(files), Streams(out, err, global_index))
            rest == JoinAll(root, dirs) \o Tail(stack)
        IN  /\ gitignore_rules' = rules
            /\ out' = st.out
            /\ err' = st.err
            /\ global_index' = st.idx
            /\ stack' = rest
            /\ IF rest = <<>>
               THEN pc' = "roots" /\ i' = i + 1
               ELSE UNCHANGED << pc, i >>
    /\ UNCHANGED << inputs, paths, rels, exit_code, fp, git_calls >>

\* lines 497-500, after the loop
Finish ==
    /\ pc = "roots"
    /\ i > Len(paths)
    /\ out' = IF cfg.claude_xml THEN Append(out, CloseDocuments) ELSE out
    /\ fp' = IF cfg.output_file THEN "closed" ELSE fp
    /\ pc' = "done"
    /\ exit_code' = 0
    /\ UNCHANGED << inputs, paths, i, gitignore_rules, stack, rels, err,
                    global_index, git_calls >>

(***************************************************************************)
(* cli() with --since.  The repository's top level is the current          *)
(* directory, RepoRoot.  git.status gives each path's state relative to    *)
(* REF; the answers of the git commands are read off it.                   *)
(***************************************************************************)
\* _git_repo_root(): git rev-parse --show-toplevel
RepoRoot == CwdAbs

\* os.path.abspath(p) for a normalised relative p, in the current directory
abspath(p) == join(CwdAbs, p)

\* os.path.commonpath([a, b]) for two absolute, normalised paths
commonpath(a, b) ==
    LET pa == SplitSep(a)
        pb == SplitSep(b)
        Same(n) == \A k \in 1..n : pa[k] = pb[k]
        MinLen == IF Len(pa) < Len(pb) THEN Len(pa) ELSE Len(pb)
        n == CHOOSE m \in 0..MinLen :
                 Same(m) /\ \A j \in (m + 1)..MinLen : ~Same(j)
        Glue[k \in 0..n] ==
            IF k = 0 THEN <<>>
            ELSE IF k = 1 THEN pa[1]
            ELSE Glue[k - 1] \o <<"/">> \o pa[k]
    IN  IF n = 1 THEN <<"/">> ELSE Glue[n]

\* the paths git may report: the files of the tree, and one path that is
\* not a file on disk
OffDisk == <<"z">>
AllGitPaths ==
    {PathOf[n] : n \in {m \in Nodes \ IgnoreSlots : Tree[m].kind = "file"}}
        \cup {OffDisk}

\* the paths whose state relative to REF varies
GitPaths == {PathOf[3], PathOf[9], OffDisk}

\* what git holds of a path in each state: the version at REF, at HEAD, in
\* the index and in the working tree (0: no file there), and whether an
\* ignore rule of git covers the path
GitState(st) ==
    LET V(r, h, x, t, ig) ==
            [ref |-> r, head |-> h, index |-> x, tree |-> t, ignored |-> ig]
    IN  CASE st = "clean" -> V(1, 1, 1, 1, FALSE)
          [] st = "committed" -> V(1, 2, 2, 2, FALSE)
          [] st = "committed_reverted" -> V(1, 2, 2, 1, FALSE)
          [] st = "staged" -> V(1, 1, 2, 2, FALSE)
          [] st = "staged_reverted" -> V(1, 1, 2, 1, FALSE)
          [] st = "staged_unstaged" -> V(1, 1, 2, 3, FALSE)
          [] st = "unstaged" -> V(1, 1, 1, 2, FALSE)
          [] st = "added" -> V(0, 0, 1, 1, FALSE)
          [] st = "unindexed" -> V(1, 1, 0, 1, FALSE)
          [] st = "untracked" -> V(0, 0, 0, 1, FALSE)
          [] st = "ignored" -> V(0, 0, 0, 1, TRUE)
          [] st = "absent" -> V(0, 0, 0, 0, FALSE)
          [] st = "deleted" -> V(1, 1, 1, 0, FALSE)
          [] st = "staged_removed" -> V(1, 1, 0, 0, FALSE)
          [] st = "staged_deleted" -> V(1, 1, 2, 0, FALSE)

Held(p) == GitState(git.status[p])

\* git diff --name-only REF -- : the paths of REF or of the index whose
\* working tree file differs from REF; a path that is not in the index
\* counts as deleted
DiffWorking ==
    {p \in AllGitPaths :
        \/ Held(p).index = 0 /\ Held(p).ref # 0
        \/ Held(p).index # 0 /\ Held(p).ref # Held(p).tree}

\* git diff --name-only REF..HEAD --
DiffCommitted == {p \in AllGitPaths : Held(p).ref # Held(p).head}

\* git diff --name-only --cached REF --
DiffCached == {p \in AllGitPaths : Held(p).ref # Held(p).index}

\* git ls-files --others --exclude-standard
LsFilesOthers ==
    {p \in AllGitPaths :
        Held(p).index = 0 /\ Held(p).tree # 0 /\ ~Held(p).ignored}

\* the git commands _git_changed_paths_since runs
changed_paths_calls(scope) ==
    CASE scope = "working" -> <<"diff REF", "ls-files --others">>
      [] scope = "committed" -> <<"diff REF..HEAD">>
      [] scope = "staged" -> <<"diff --cached REF">>
      [] OTHER -> <<>>

\* a resolver that adds the untracked files under every scope
_git_changed_paths_since_untracked_always(scope) ==
    LET tracked == CASE scope = "working" -> DiffWorking
                     [] scope = "committed" -> DiffCommitted
                     [] scope = "staged" -> DiffCached
                     [] OTHER -> {}
        candidates == tracked \cup LsFilesOthers
    IN  {p \in candidates : isfile(join(RepoRoot, p))}

_git_changed_paths_since(scope) ==
    LET tracked == CASE scope = "working" -> DiffWorking
                     [] scope = "committed" -> DiffCommitted
                     [] scope = "staged" -> DiffCached
                     [] OTHER -> {}
        untracked == IF scope = "working" THEN LsFilesOthers ELSE {}
        candidates == tracked \cup untracked
    IN  {p \in candidates : isfile(join(RepoRoot, p))}

\* a restriction that compares the paths as strings
RestrictToPaths_prefix(changed) ==
    IF paths # <<>>
    THEN {rel \in changed :
             \E k \in 1..Len(paths) :
                 startswith(join(RepoRoot, rel), abspath(paths[k]))}
    ELSE changed

\* lines 404-413: the changed paths under one of the path arguments
RestrictToPaths(changed) ==
    IF paths # <<>>
    THEN {rel \in changed :
             \E k \in 1..Len(paths) :
                 commonpath(join(RepoRoot, rel), abspath(paths[k]))
                     = abspath(paths[k])}
    ELSE changed

\* a filter that also applies the .gitignore of the file's directory unless
\* ignore_gitignore is set
SinceKeeps_own_rules(rel) ==
    LET parts == SplitSep(rel)
        AnyPart(P(_)) == \E k \in 1..Len(parts) : P(parts[k])
    IN  /\ ~(~cfg.include_hidden /\ AnyPart(LAMBDA x : startswith(x, <<".">>)))
        /\ ~(cfg.extensions # <<>> /\ ~endswith(rel, cfg.extensions))
        /\ ~(/\ cfg.ignore_patterns # <<>>
             /\ IF cfg.ignore_files_only
                THEN MatchesPattern(basename(rel))
                ELSE AnyPart(MatchesPattern))
        /\ ~(~cfg.ignore_gitignore
               /\ should_ignore(rel, read_gitignore(dirname(rel))))

\* lines 419-435: whether the loop appends rel to rels
SinceKeeps(rel) ==
    LET parts == SplitSep(rel)
        AnyPart(P(_)) == \E k \in 1..Len(parts) : P(parts[k])
    IN  /\ ~(~cfg.include_hidden /\ AnyPart(LAMBDA x : startswith(x, <<".">>)))
        /\ ~(cfg.extensions # <<>> /\ ~endswith(rel, cfg.extensions))
        /\ ~(/\ cfg.ignore_patterns # <<>>
             /\ IF cfg.ignore_files_only
                THEN MatchesPattern(basename(rel))
                ELSE AnyPart(MatchesPattern))

\* sorted(a set of str)
RECURSIVE SortedSet(_)
SortedSet(S) ==
    IF S = {} THEN <<>>
    ELSE LET least == CHOOSE x \in S : \A y \in S \ {x} : StrLess(x, y)
         IN  <<least>> \o SortedSet(S \ {least})

\* a first phase that opens the file of --output before the repository is
\* looked for
SinceRepoRoot_opens_first ==
    /\ pc = "since"
    /\ err' = IF cfg.ignore_gitignore
              THEN Append(err, Warning("--ignore-gitignore is ignored", NoPath))
              ELSE err
    /\ fp' = IF cfg.output_file THEN "open" ELSE fp
    /\ IF ~git.inside
       THEN /\ git_calls' = Append(git_calls, "rev-parse --is-inside-work-tree")
            /\ pc' = "failed"
            /\ exit_code' = 1
       ELSE /\ git_calls' = git_calls \o <<"rev-parse --is-inside-work-tree",
                                            "rev-parse --show-toplevel">>
            /\ pc' = "validate"
            /\ UNCHANGED exit_code
    /\ UNCHANGED << inputs, paths, i, gitignore_rules, stack, rels, out,
                    global_index >>

\* lines 390-399: the warning, then _git_repo_root()
SinceRepoRoot ==
    /\ pc = "since"
    /\ err' = IF cfg.ignore_gitignore
              THEN Append(err, Warning("--ignore-gitignore is ignored", NoPath))
              ELSE err
    /\ IF ~git.inside
       THEN /\ git_calls' = Append(git_calls, "rev-parse --is-inside-work-tree")
            /\ pc' = "failed"
            /\ exit_code' = 1
       ELSE /\ git_calls' = git_calls \o <<"rev-parse --is-inside-work-tree",
                                            "rev-parse --show-toplevel">>
            /\ pc' = "validate"
            /\ UNCHANGED exit_code
    /\ UNCHANGED << inputs, paths, i, gitignore_rules, stack, rels, out,
                    global_index, fp >>

\* line 400: _validate_git_ref(since_ref, repo_root)
SinceValidate ==
    /\ pc = "validate"
    /\ git_calls' = Append(git_calls, "rev-parse --verify")
    /\ IF ~git.ref_ok
       THEN pc' = "failed" /\ exit_code' = 1
       ELSE pc' = "resolve" /\ UNCHANGED exit_code
    /\ UNCHANGED << inputs, paths, i, gitignore_rules, stack, rels, out, err,
                    global_index, fp >>

\* lines 401-436: the changed paths, their restriction to the named paths
\* and their filtering
SinceResolve ==
    /\ pc = "resolve"
    /\ git_calls' = git_calls \o changed_paths_calls(cfg.since_scope)
    /\ rels' = SelectSeq(
           SortedSet(RestrictToPaths(_git_changed_paths_since(cfg.since_scope))),
           SinceKeeps)
    /\ pc' = "emit"
    /\ UNCHANGED << inputs, paths, i, gitignore_rules, stack, out, err,
                    global_index, exit_code, fp >>

\* a loop body that reads the working tree file under every scope
SinceReadAndPrint_from_disk(rel, st) ==
    IF Lookup(join(RepoRoot, rel)) \in binary
    THEN Streams(st.out, Append(st.err, Warning("Unicode/Git error", rel)), st.idx)
    ELSE Streams(st.out \o print_path(rel, "disk", cfg.claude_xml, cfg.markdown,
                                      cfg.line_numbers, st.idx),
                 st.err,
                 IF cfg.claude_xml THEN st.idx + 1 ELSE st.idx)

\* the body of "for rel in rels": lines 446-464
SinceReadAndPrint(rel, st) ==
    IF \/ cfg.since_scope = "staged" /\ Held(rel).index = 0
       \/ cfg.since_scope # "staged" /\ Lookup(join(RepoRoot, rel)) \in binary
    THEN Streams(st.out, Append(st.err, Warning("Unicode/Git error", rel)), st.idx)
    ELSE Streams(st.out \o print_path(rel,
                     IF cfg.since_scope = "staged" THEN "index" ELSE "disk",
                     cfg.claude_xml, cfg.markdown, cfg.line_numbers, st.idx),
                 st.err,
                 IF cfg.claude_xml THEN st.idx + 1 ELSE st.idx)

\* a loop that ends at the first path whose content cannot be read
RECURSIVE SinceEmitAll_stops_at_failure(_, _)
SinceEmitAll_stops_at_failure(rs, st) ==
    IF rs = <<>> THEN st
    ELSE LET after == SinceReadAndPrint(Head(rs), st)
         IN  IF Len(after.err) > Len(st.err) THEN after
             ELSE SinceEmitAll_stops_at_failure(Tail(rs), after)

\* for rel in rels: lines 445-464
RECURSIVE SinceEmitAll(_, _)
SinceEmitAll(rs, st) ==
    IF rs = <<>> THEN st
    ELSE SinceEmitAll(Tail(rs), SinceReadAndPrint(Head(rs), st))

\* lines 438-469
SinceEmit ==
    /\ pc = "emit"
    /\ LET opened == IF cfg.claude_xml THEN Append(out, OpenDocuments) ELSE out
           st == SinceEmitAll(rels, Streams(opened, err, global_index))
       IN  /\ out' = IF cfg.claude_xml THEN Append(st.out, CloseDocuments)
                     ELSE st.out
           /\ err' = st.err
           /\ global_index' = st.idx
    /\ git_calls' = git_calls \o (IF cfg.since_scope = "staged"
                                   THEN [k \in 1..Len(rels) |-> "show"]
                                   ELSE <<>>)
    /\ fp' = IF cfg.output_file THEN "closed" ELSE fp
    /\ pc' = "done"
    /\ exit_code' = 0
    /\ UNCHANGED << inputs, paths, i, gitignore_rules, stack, rels >>

\* the process calls cli() again: the locals of the call that ended are
\* gone, the module global global_index stays as it was left
Reinvoke ==
    /\ pc \in {"done", "failed"}
    /\ later # <<>>
    /\ prev' = [called |-> TRUE, cfg |-> cfg, out |-> out, err |-> err,
                rels |-> rels, exit_code |-> exit_code]
    /\ cfg' = Head(later)
    /\ later' = Tail(later)
    /\ pc' = "start"
    /\ paths' = <<>>
    /\ i' = 0
    /\ stack' = <<>>
    /\ rels' = <<>>
    /\ out' = <<>>
    /\ err' = <<>>
    /\ exit_code' = -1
    /\ fp' = "unopened"
    /\ git_calls' = <<>>
    /\ UNCHANGED << gitignore_files, binary, git, listing_rev, gitignore_rules,
                    global_index >>

(***************************************************************************)
(* Invocations.  Each set below varies some of the inputs over all their   *)
(* combinations and holds the others at their defaults.                    *)
(***************************************************************************)
RootDir == PathOf[2]
RootSub == PathOf[15]
RootFile == PathOf[6]
RootMissing == <<"z", "z">>
RootA == PathOf[7]

PatternMd == << <<"*", ".", "m", "d">> >>
ExtWithSep == << <<"/", "k", ".", "p", "y">> >>
ExtPy == << <<"p", "y">> >>

DefaultCfg ==
    [args |-> <<>>, stdin_paths |-> <<>>, extensions |-> <<>>,
     include_hidden |-> FALSE, ignore_files_only |-> FALSE,
     ignore_gitignore |-> FALSE, ignore_patterns |-> <<>>,
     claude_xml |-> FALSE, markdown |-> FALSE, line_numbers |-> FALSE,
     since_ref |-> FALSE, since_scope |-> "working", output_file |-> FALSE]

SeqsUpTo(S, n) == UNION {[1..k -> S] : k \in 0..n}

\* no .gitignore anywhere
NoIgnoreFiles == [n \in IgnoreSlots |-> Absent]

\* the .gitignore of the hidden directory r/a/d/.g, and the others
HiddenSlots == {n \in IgnoreSlots : startswith(Tree[Tree[n].parent].name, <<".">>)}
VisibleSlots == IgnoreSlots \ HiddenSlots

\* up to MaxIgnoreFiles .gitignore files, none of them in a hidden directory
IgnoreFileChoices ==
    LET visible ==
            {g \in [VisibleSlots ->
                        {Present(c) : c \in IgnoreContents} \cup {Absent}] :
                Cardinality({n \in VisibleSlots : g[n].present})
                    <= MaxIgnoreFiles}
    IN  {[n \in IgnoreSlots |-> IF n \in VisibleSlots THEN g[n] ELSE Absent] :
            g \in visible}

\* no .gitignore but, possibly, in the hidden directory
HiddenIgnoreChoices ==
    {[n \in IgnoreSlots |-> IF n \in HiddenSlots THEN c ELSE Absent] :
        c \in {Present(x) : x \in IgnoreContents} \cup {Absent}}

BinaryChoices ==
    {b \in SUBSET BinaryCandidates : Cardinality(b) <= MaxBinary}

\* the states relative to REF of a path that is a file on disk, and of one
\* that is not
GitStatuses(p) ==
    IF p # OffDisk
    THEN {"clean", "committed", "committed_reverted", "staged",
          "staged_reverted", "staged_unstaged", "unstaged", "added",
          "unindexed", "untracked", "ignored"}
    ELSE {"absent", "deleted", "staged_removed", "staged_deleted"}

Unchanged(p) == IF p # OffDisk THEN "clean" ELSE "absent"

\* nothing differs from REF
NoChanges == [p \in AllGitPaths |-> Unchanged(p)]

\* up to MaxChanged of GitPaths differ from REF
GitStatusChoices ==
    LET varied ==
            {g \in [GitPaths -> UNION {GitStatuses(p) : p \in GitPaths}] :
                /\ \A p \in GitPaths : g[p] \in GitStatuses(p)
                /\ Cardinality({p \in GitPaths : g[p] # Unchanged(p)})
                       <= MaxChanged}
    IN  {[p \in AllGitPaths |-> IF p \in GitPaths THEN g[p] ELSE Unchanged(p)] :
            g \in varied}

\* every file of the tree has an unstaged change
AllChanged ==
    [p \in AllGitPaths |-> IF p # OffDisk THEN "unstaged" ELSE "absent"]

NoGit == [inside |-> FALSE, ref_ok |-> FALSE, status |-> NoChanges]

\* one root, a directory or a regular file, under every combination of the
\* filter options
FilterCfgs ==
    {[DefaultCfg EXCEPT !.args = <<root>>, !.include_hidden = h,
                        !.ignore_files_only = fo, !.ignore_gitignore = ig,
                        !.ignore_patterns = pat, !.extensions = ext] :
        root \in {RootDir, RootFile},
        h \in BOOLEAN, fo \in BOOLEAN, ig \in BOOLEAN,
        pat \in {<<>>, PatternMd}, ext \in {<<>>, ExtPy}}

\* every list of existing roots, with and without .gitignore honoured
RootCfgs ==
    {[DefaultCfg EXCEPT !.args = a, !.ignore_gitignore = ig] :
        a \in SeqsUpTo({RootDir, RootSub, RootFile}, MaxRoots),
        ig \in BOOLEAN}

\* plain, numbered, XML, Markdown, and XML and Markdown both asked for
Formats ==
    { <<FALSE, FALSE, FALSE>>, <<FALSE, FALSE, TRUE>>, <<TRUE, FALSE, FALSE>>,
      <<FALSE, TRUE, FALSE>>, <<TRUE, TRUE, FALSE>> }

\* every format, with roots given as arguments and on standard input,
\* existing or not
FormatCfgs ==
    {[DefaultCfg EXCEPT !.args = a, !.stdin_paths = sp, !.claude_xml = f[1],
                        !.markdown = f[2], !.line_numbers = f[3]] :
        a \in SeqsUpTo({RootDir, RootSub, RootFile, RootMissing}, MaxRoots),
        sp \in SeqsUpTo({RootSub, RootFile, RootMissing}, MaxRoots),
        f \in Formats}

\* --since under every scope and state of the repository, with and without
\* a path to restrict it to
SinceCfgs ==
    {[DefaultCfg EXCEPT !.since_ref = TRUE, !.since_scope = sc, !.args = a] :
        sc \in {"working", "committed", "staged"},
        a \in {<<>>, <<RootA>>, <<PathOf[3]>>}}

\* --since when the repository, the reference or a read fails
SinceErrorCfgs ==
    {[DefaultCfg EXCEPT !.since_ref = TRUE, !.since_scope = sc,
                        !.claude_xml = x, !.ignore_gitignore = ig,
                        !.output_file = o, !.stdin_paths = sp] :
        sc \in {"working", "committed", "staged"}, x \in BOOLEAN,
        ig \in BOOLEAN, o \in BOOLEAN, sp \in {<<>>, <<RootMissing>>}}

\* --since under every combination of the filter options
SinceFilterCfgs ==
    {[DefaultCfg EXCEPT !.since_ref = TRUE, !.include_hidden = h,
                        !.ignore_files_only = fo, !.ignore_gitignore = ig,
                        !.ignore_patterns = pat, !.extensions = ext] :
        h \in BOOLEAN, fo \in BOOLEAN, ig \in BOOLEAN,
        pat \in {<<>>, PatternMd}, ext \in {<<>>, ExtPy, ExtWithSep}}

\* --output, with roots given as arguments and on standard input, existing
\* or not
OutputFileCfgs ==
    {[DefaultCfg EXCEPT !.output_file = TRUE, !.args = a, !.stdin_paths = sp,
                        !.claude_xml = x] :
        a \in SeqsUpTo({RootSub, RootMissing}, 1),
        sp \in SeqsUpTo({RootFile, RootMissing}, MaxRoots),
        x \in BOOLEAN}

\* the parameters of cli() when a process calls it twice
TwiceCfgs ==
    {[DefaultCfg EXCEPT !.args = a, !.claude_xml = x, !.since_ref = sr,
                        !.ignore_gitignore = ig] :
        a \in {<<RootDir>>, <<RootFile, RootSub>>},
        x \in BOOLEAN, sr \in BOOLEAN, ig \in BOOLEAN}

\* a traversal of a directory without --include-hidden
HiddenCfgs ==
    {[DefaultCfg EXCEPT !.args = <<root>>, !.ignore_gitignore = ig,
                        !.ignore_patterns = pat, !.extensions = ext] :
        root \in {RootDir, RootA}, ig \in BOOLEAN,
        pat \in {<<>>, PatternMd}, ext \in {<<>>, ExtPy}}

\* the second call differs from the first in include_hidden only
Unhidden(c) == [c EXCEPT !.include_hidden = ~c.include_hidden]

\* the second call differs from the first in ignore_gitignore only
Flagged(c) == [c EXCEPT !.ignore_gitignore = ~c.ignore_gitignore]

NoPrev ==
    [called |-> FALSE, cfg |-> DefaultCfg, out |-> <<>>, err |-> <<>>,
     rels |-> <<>>, exit_code |-> -1]

InitProgram ==
    /\ pc = "start"
    /\ paths = <<>>
    /\ i = 0
    /\ gitignore_rules = <<>>
    /\ stack = <<>>
    /\ rels = <<>>
    /\ out = <<>>
    /\ err = <<>>
    /\ global_index = 1
    /\ exit_code = -1
    /\ fp = "unopened"
    /\ git_calls = <<>>
    /\ prev = NoPrev

InitFilters ==
    /\ cfg \in FilterCfgs
    /\ gitignore_files \in IgnoreFileChoices
    /\ binary = {}
    /\ git = NoGit
    /\ listing_rev \in BOOLEAN
    /\ later = <<>>

InitRoots ==
    /\ cfg \in RootCfgs
    /\ gitignore_files \in IgnoreFileChoices
    /\ binary = {}
    /\ git = NoGit
    /\ listing_rev \in BOOLEAN
    /\ later = <<>>

InitFormats ==
    /\ cfg \in {c \in FormatCfgs : Len(c.args) + Len(c.stdin_paths) <= MaxRoots}
    /\ gitignore_files = NoIgnoreFiles
    /\ binary \in BinaryChoices
    /\ git = NoGit
    /\ listing_rev = FALSE
    /\ later = <<>>

InitOutputFile ==
    /\ cfg \in OutputFileCfgs
    /\ gitignore_files = NoIgnoreFiles
    /\ binary = {}
    /\ git = NoGit
    /\ listing_rev = FALSE
    /\ later = <<>>

InitSince ==
    /\ cfg \in SinceCfgs
    /\ gitignore_files = NoIgnoreFiles
    /\ binary = {}
    /\ git \in {[inside |-> TRUE, ref_ok |-> TRUE, status |-> st] :
                  st \in GitStatusChoices}
    /\ listing_rev = FALSE
    /\ later = <<>>

InitSinceErrors ==
    /\ cfg \in SinceErrorCfgs
    /\ gitignore_files = NoIgnoreFiles
    /\ binary \in {{}, {3}}
    /\ git \in {[inside |-> ins, ref_ok |-> ok,
                  status |-> [NoChanges EXCEPT ![PathOf[3]] = "committed",
                                               ![PathOf[9]] = "unindexed"]] :
                    ins \in BOOLEAN, ok \in BOOLEAN}
    /\ listing_rev = FALSE
    /\ later = <<>>

InitSinceFilters ==
    /\ cfg \in SinceFilterCfgs
    /\ gitignore_files = NoIgnoreFiles
    /\ binary = {}
    /\ git = [inside |-> TRUE, ref_ok |-> TRUE, status |-> AllChanged]
    /\ listing_rev = FALSE
    /\ later = <<>>

InitTwice ==
    /\ cfg \in TwiceCfgs
    /\ gitignore_files \in IgnoreFileChoices
    /\ binary = {}
    /\ git = [inside |-> TRUE, ref_ok |-> TRUE, status |-> AllChanged]
    /\ listing_rev \in BOOLEAN
    /\ later \in {<<cfg>>, <<Flagged(cfg)>>}

InitHidden ==
    /\ cfg \in HiddenCfgs
    /\ gitignore_files \in HiddenIgnoreChoices
    /\ binary = {}
    /\ git = NoGit
    /\ listing_rev \in BOOLEAN
    /\ later = <<Unhidden(cfg)>>

Init ==
    /\ InitProgram
    /\ \/ InitFilters
       \/ InitRoots
       \/ InitFormats
       \/ InitOutputFile
       \/ InitSince
       \/ InitSinceErrors
       \/ InitSinceFilters
       \/ InitTwice
       \/ InitHidden

Next ==
    \/ Start
    \/ NextRoot
    \/ WalkDir
    \/ Finish
    \/ SinceRepoRoot
    \/ SinceValidate
    \/ SinceResolve
    \/ SinceEmit
    \/ Reinvoke

Spec == Init /\ [][Next]_vars

(***************************************************************************)
(* Vocabulary of the properties.                                           *)
(***************************************************************************)
Honoured == ~cfg.ignore_gitignore

\* the paths of the lines of a sequence of lines
PrintedIn(lines, p) == \E k \in 1..Len(lines) : lines[k].path = p
Emitted(p) == PrintedIn(out, p)
Warned(p) == \E k \in 1..Len(err) : err[k].path = p

\* the documents of a sequence of lines, in order: one content line each
DocPaths(lines) ==
    LET docs == SelectSeq(lines, LAMBDA l : l.k = "content")
    IN  [k \in 1..Len(docs) |-> docs[k].path]

\* a step of WalkDir starts in such a state, and visits Visited
Walking == pc = "walk" /\ stack # <<>>
Visited == Head(stack)

\* what a step adds to the output, to the error stream and to os.walk's stack
NewLines == SubSeq(out', Len(out) + 1, Len(out'))
NewErr == SubSeq(err', Len(err) + 1, Len(err'))
Pushed == SubSeq(stack', 1, Len(stack') - Len(stack) + 1)

\* the entries of the directory at path d
Children(d) ==
    {n \in Nodes : NodeExists(n) /\ Tree[n].parent = Lookup(d)}
IsFile(n) == Tree[n].kind = "file"
IsDir(n) == Tree[n].kind = "dir"

\* the directories from node top down to node d, top first; d is top or
\* below it
RECURSIVE DirChain(_, _)
DirChain(top, d) ==
    IF d = top \/ d = NoNode THEN <<d>>
    ELSE Append(DirChain(top, Tree[d].parent), d)

\* n is below directory top
RECURSIVE Below(_, _)
Below(n, top) ==
    /\ n # NoNode
    /\ Tree[n].parent # NoNode
    /\ (Tree[n].parent = top \/ Below(Tree[n].parent, top))

\* the rules defined in the .gitignore files of a chain of directories
RECURSIVE RulesOf(_)
RulesOf(chain) ==
    IF chain = <<>> THEN <<>>
    ELSE read_gitignore(PathOf[Head(chain)]) \o RulesOf(Tail(chain))

\* the four checks of the path filter on one entry
HiddenOK(n) == cfg.include_hidden \/ ~startswith(Tree[n].name, <<".">>)
RuleMatches(n, rules) ==
    \E k \in 1..Len(rules) :
        \/ fnmatch(Tree[n].name, rules[k])
        \/ IsDir(n) /\ fnmatch(Tree[n].name \o <<"/">>, rules[k])
IgnoreOK(n, rules) == ~Honoured \/ ~RuleMatches(n, rules)
PatternOK(n) ==
    \A k \in 1..Len(cfg.ignore_patterns) :
        ~fnmatch(Tree[n].name, cfg.ignore_patterns[k])
ExtensionOK(n) ==
    \/ cfg.extensions = <<>>
    \/ \E k \in 1..Len(cfg.extensions) :
           EndsWithOne(Tree[n].name, cfg.extensions[k])

\* the rules in scope for the entries of directory d in a traversal from
\* top: those of the .gitignore beside top, which cli() reads before the
\* traversal, and of the directories from top down to d
ScopedRules(top, d) ==
    read_gitignore(dirname(PathOf[top])) \o RulesOf(DirChain(top, d))

\* entry n passes the checks that apply to it in a traversal from top
EntryPasses(n, top) ==
    /\ HiddenOK(n)
    /\ IgnoreOK(n, ScopedRules(top, Tree[n].parent))
    /\ IF IsDir(n) THEN cfg.ignore_files_only \/ PatternOK(n)
       ELSE PatternOK(n) /\ ExtensionOK(n)

\* file f below top passes, and so does every directory between them
RECURSIVE PathPasses(_, _)
PathPasses(n, top) ==
    /\ EntryPasses(n, top)
    /\ Tree[n].parent = top \/ PathPasses(Tree[n].parent, top)

\* the invocation is a traversal of one directory root that has ended
OneDirRootDone ==
    /\ pc = "done"
    /\ ~cfg.since_ref
    /\ Len(paths) = 1
    /\ isdir(paths[1])

(***************************************************************************)
(* C1.  For a directory root and every configuration, a file below the     *)
(* root is emitted if and only if the file passes the hidden, ignore-file, *)
(* explicit-pattern and extension checks and every directory between the   *)
(* root and the file passes the hidden, ignore-file and explicit-pattern   *)
(* checks.  The ignore-file check of an entry uses the rules in scope for  *)
(* its directory (ScopedRules); the files are those that decode.           *)
(***************************************************************************)
C1_EmittedIffPasses ==
    OneDirRootDone =>
        \A f \in Nodes :
            (NodeExists(f) /\ IsFile(f) /\ f \notin binary
                /\ Below(f, Lookup(paths[1])))
            => (Emitted(PathOf[f]) <=> PathPasses(f, Lookup(paths[1])))

\* a step of WalkDir keeps entry n of the visited directory: prints it if
\* it is a file, goes on to it if it is a directory
Kept(n) ==
    LET p == join(Visited, Tree[n].name)
    IN  IF IsFile(n) THEN PrintedIn(NewLines, p)
        ELSE \E k \in 1..Len(Pushed) : Pushed[k] = p

\* entry n passes the checks other than the ignore-file check, and decodes
PassesOtherChecks(n) ==
    /\ HiddenOK(n)
    /\ IF IsDir(n) THEN cfg.ignore_files_only \/ PatternOK(n)
       ELSE PatternOK(n) /\ ExtensionOK(n) /\ n \notin binary

(***************************************************************************)
(* C2.  With .gitignore honoured, a rule defined in the .gitignore of any  *)
(* directory from the traversal root down to the visited directory         *)
(* excludes the matching files of the visited directory and prunes its     *)
(* matching subdirectories, however far above the rule is defined; with    *)
(* .gitignore not honoured, every entry that passes the other checks is    *)
(* kept.                                                                   *)
(***************************************************************************)
C2_Step ==
    Walking =>
        LET branch == RulesOf(DirChain(Lookup(paths[i]), Lookup(Visited)))
        IN  \A n \in Children(Visited) :
                /\ (Honoured /\ RuleMatches(n, branch)) => ~Kept(n)
                /\ (~Honoured /\ PassesOtherChecks(n)) => Kept(n)

C2_AncestorRulesExclude == [][C2_Step]_vars

\* r/.gitignore holds skip, r/a and r/a/d define no rule: r/a/d/skip is
\* left out and r/a/d/k.py is printed
C2_Witness ==
    /\ pc = "done"
    /\ paths = <<RootDir>>
    /\ Honoured
    /\ read_gitignore(RootDir) = << <<"s", "k", "i", "p">> >>
    /\ ~gitignore_files[23].present
    /\ Emitted(PathOf[12])
    /\ ~Emitted(PathOf[11])

(***************************************************************************)
(* C3.  The rules are scoped to a branch of the traversal: an entry of the *)
(* visited directory D is excluded by a .gitignore rule only when a rule   *)
(* of D or of a directory above D matches it; a rule defined in a sibling  *)
(* directory (or below one) visited earlier never excludes an entry of D.  *)
(***************************************************************************)
C3_Step ==
    (Walking /\ Honoured) =>
        LET above == RulesOf(DirChain(Cwd, Lookup(Visited)))
        IN  \A n \in Children(Visited) :
                (PassesOtherChecks(n) /\ ~RuleMatches(n, above)) => Kept(n)

C3_RulesScopedToBranch == [][C3_Step]_vars

(***************************************************************************)
(* C4.  The rules are rebuilt for each root: the traversal of a root       *)
(* begins with no rule contributed by the processing of an earlier root,   *)
(* that is with the rules cli() reads for this root alone.                 *)
(***************************************************************************)
C4_FreshRulesPerRoot ==
    (pc = "walk" /\ stack = <<paths[i]>>) =>
        gitignore_rules =
            (IF Honoured THEN read_gitignore(dirname(paths[i])) ELSE <<>>)

(***************************************************************************)
(* C5.  In a traversal an explicit pattern always excludes the files whose *)
(* basename matches; it prunes a directory whose basename matches exactly  *)
(* when ignore_files_only is unset.  With ignore_files_only set a          *)
(* directory that passes the hidden and ignore-file checks is gone into    *)
(* whatever its name.  A step prints only files of the visited directory   *)
(* and goes on only to its subdirectories, so nothing below a pruned       *)
(* directory is reached.                                                   *)
(***************************************************************************)
C5_Step ==
    Walking =>
        /\ \A n \in Children(Visited) :
              /\ (IsFile(n) /\ ~PatternOK(n)) => ~Kept(n)
              /\ (IsDir(n) /\ ~PatternOK(n) /\ ~cfg.ignore_files_only) => ~Kept(n)
              /\ (IsDir(n) /\ cfg.ignore_files_only /\ HiddenOK(n)
                    /\ IgnoreOK(n, gitignore_rules')) => Kept(n)
        /\ \A k \in 1..Len(NewLines) : dirname(NewLines[k].path) = Visited
        /\ \A k \in 1..Len(Pushed) : dirname(Pushed[k]) = Visited

C5_PatternsPruneUnlessFilesOnly == [][C5_Step]_vars

\* --ignore "*.md" --ignore-files-only: r/n.md and r/b/m.md/n.md are left
\* out, r/b/m.md is gone into and r/b/m.md/k.py printed
C5_Witness ==
    /\ pc = "done"
    /\ paths = <<RootDir>>
    /\ cfg.ignore_patterns = PatternMd
    /\ cfg.ignore_files_only
    /\ Emitted(PathOf[19])
    /\ ~Emitted(PathOf[20])
    /\ ~Emitted(PathOf[5])

(***************************************************************************)
(* C6.  The extension filter is a literal suffix test: with extensions     *)
(* given, a file of the visited directory that passes the other checks is  *)
(* printed if and only if its name ends with one of them as given, without *)
(* a dot being added; with none given no such file is left out; a          *)
(* directory is never left out for its name's ending.                      *)
(***************************************************************************)
C6_Step ==
    Walking =>
        \A n \in Children(Visited) :
            (/\ HiddenOK(n)
             /\ IgnoreOK(n, gitignore_rules')
             /\ IF IsDir(n) THEN cfg.ignore_files_only \/ PatternOK(n)
                ELSE PatternOK(n) /\ n \notin binary)
            => (Kept(n) <=> (IsDir(n) \/ ExtensionOK(n)))

C6_ExtensionIsLiteralSuffix == [][C6_Step]_vars

\* -e py: r/xpy is printed, r/n.md is not, and r/a is gone into
C6_Witness ==
    /\ pc = "done"
    /\ paths = <<RootDir>>
    /\ cfg.extensions = ExtPy
    /\ Emitted(PathOf[4])
    /\ Emitted(PathOf[9])
    /\ ~Emitted(PathOf[5])

(***************************************************************************)
(* C7.  A root that is a regular file whose name ends with none of the     *)
(* given extensions is not emitted.                                        *)
(***************************************************************************)
C7_FileRootExtensionFiltered ==
    (pc = "done" /\ ~cfg.since_ref) =>
        \A k \in 1..Len(paths) :
            (isfile(paths[k]) /\ cfg.extensions # <<>>
                /\ ~endswith(paths[k], cfg.extensions))
            => ~Emitted(paths[k])

(***************************************************************************)
(* C8.  A root that is a regular file and decodes is printed in its turn,  *)
(* whatever its name: hidden, matched by a rule of the .gitignore beside   *)
(* it, or matched by an explicit pattern.                                  *)
(***************************************************************************)
C8_Step ==
    (pc = "roots" /\ i <= Len(paths) /\ isfile(paths[i])
        /\ Lookup(paths[i]) \notin binary)
    => /\ DocPaths(NewLines) = <<paths[i]>>
       /\ NewErr = <<>>
       /\ pc' = "roots"
       /\ i' = i + 1

C8_FileRootUnfiltered == [][C8_Step]_vars

\* r/.n.md given as a root: hidden, matched by *.md in r/.gitignore and by
\* --ignore "*.md", and printed
C8_Witness ==
    /\ pc = "done"
    /\ paths = <<RootFile>>
    /\ ~cfg.include_hidden
    /\ Honoured
    /\ cfg.ignore_patterns = PatternMd
    /\ should_ignore(RootFile, read_gitignore(dirname(RootFile)))
    /\ should_ignore(RootFile, gitignore_rules)
    /\ DocPaths(out) = <<RootFile>>

\* a list of str strictly ascending in Python's order
Ascending(s) == \A k \in 1..(Len(s) - 1) : StrLess(s[k], s[k + 1])

\* the nodes the paths of a list name
RECURSIVE NodesOf(_)
NodesOf(ps) ==
    IF ps = <<>> THEN <<>> ELSE <<Lookup(Head(ps))>> \o NodesOf(Tail(ps))

\* <<n, top>>: node n is top itself or lies below it
UnderPairs == {q \in Nodes \X Nodes : q[1] = q[2] \/ Below(q[1], q[2])}

\* <<a, b>>: the directory of a is a subdirectory, at any depth, of the
\* directory of b
DeeperPairs ==
    {q \in Nodes \X Nodes : Below(Tree[q[1]].parent, Tree[q[2]].parent)}

\* the documents ns[lo..m] lie under root and none of them is a file of a
\* directory printed after a file of its subdirectories; the result is the
\* largest index up to which this stays so
RECURSIVE Reach(_, _, _, _)
Reach(ns, lo, m, root) ==
    IF /\ m < Len(ns)
       /\ <<ns[m + 1], root>> \in UnderPairs
       /\ \A a \in lo..m : <<ns[a], ns[m + 1]>> \notin DeeperPairs
    THEN Reach(ns, lo, m + 1, root)
    ELSE m

\* ns[lo..] splits into one run of documents per root, in the order of the
\* roots: the documents of a run lie under its root, and in a run no file
\* of a directory comes after a file of one of its subdirectories
RECURSIVE SegmentableFrom(_, _, _)
SegmentableFrom(ns, lo, roots) ==
    IF roots = <<>> THEN lo = Len(ns) + 1
    ELSE \E m \in (lo - 1)..Reach(ns, lo, lo - 1, Lookup(Head(roots))) :
            SegmentableFrom(ns, m + 1, Tail(roots))

Segmentable(docs, roots) == SegmentableFrom(NodesOf(docs), 1, roots)

(***************************************************************************)
(* C9.  Output order follows selection order.  A step of the traversal     *)
(* prints the files of the visited directory in ascending order of         *)
(* basename; the roots are the arguments in their order followed by the    *)
(* paths of standard input; when the traversal has ended the documents     *)
(* split into one run per root in the order of the roots, and within a run *)
(* no file of a directory follows a file of its subdirectories; with       *)
(* --since the documents are in ascending order of path.                   *)
(***************************************************************************)
C9_Ordered ==
    /\ pc \in {"roots", "walk", "since", "validate", "resolve", "emit", "done"}
          => paths = cfg.args \o cfg.stdin_paths
    /\ (pc = "done" /\ ~cfg.since_ref) => Segmentable(DocPaths(out), paths)
    /\ (pc = "done" /\ cfg.since_ref) => Ascending(DocPaths(out))

C9_Step ==
    /\ Walking =>
          LET docs == DocPaths(NewLines)
          IN  /\ \A k \in 1..Len(docs) : dirname(docs[k]) = Visited
              /\ Ascending([k \in 1..Len(docs) |-> basename(docs[k])])
    /\ later' = later => SubSeq(out', 1, Len(out)) = out

C9_OutputOrder == []C9_Ordered /\ [][C9_Step]_vars

\* r/b given as an argument and r/.n.md on standard input: the files of
\* r/b by name, then those of r/b/m.md, then r/.n.md
C9_Witness ==
    /\ pc = "done"
    /\ cfg.args = <<RootSub>>
    /\ cfg.stdin_paths = <<RootFile>>
    /\ DocPaths(out) =
           << PathOf[17], PathOf[16], PathOf[19], PathOf[20], PathOf[6] >>

(***************************************************************************)
(* C10.  A file that does not decode is skipped: a warning naming it goes  *)
(* to the error stream, no line of it is written to the output, the other  *)
(* included files of the directory are printed, the traversal goes on to   *)
(* the next directory or root, and the invocation does not fail for it.    *)
(***************************************************************************)
C10_Included ==
    {n \in Children(Visited) :
        /\ IsFile(n)
        /\ HiddenOK(n)
        /\ IgnoreOK(n, gitignore_rules')
        /\ PatternOK(n)
        /\ ExtensionOK(n)}

C10_NoBinaryLine ==
    ~cfg.since_ref =>
        /\ \A k \in 1..Len(out) : Lookup(out[k].path) \notin binary
        /\ pc = "failed" =>
              \E k \in 1..Len(cfg.args \o cfg.stdin_paths) :
                  ~exists((cfg.args \o cfg.stdin_paths)[k])
        /\ pc = "done" => exit_code = 0

C10_Step ==
    /\ Walking =>
          /\ \A n \in C10_Included :
                LET p == join(Visited, Tree[n].name)
                IN  IF n \in binary
                    THEN /\ ~PrintedIn(NewLines, p)
                         /\ \E k \in 1..Len(NewErr) : NewErr[k].path = p
                    ELSE PrintedIn(NewLines, p)
          /\ Len(NewErr) = Cardinality(C10_Included \cap binary)
          /\ pc' \in {"walk", "roots"}
          /\ exit_code' = exit_code
    /\ (pc = "roots" /\ i <= Len(paths) /\ Lookup(paths[i]) \in binary) =>
          /\ ~PrintedIn(NewLines, paths[i])
          /\ NewErr = << Warning("UnicodeDecodeError", paths[i]) >>
          /\ pc' = "roots"
          /\ i' = i + 1
          /\ exit_code' = exit_code
    /\ later' = later => SubSeq(out', 1, Len(out)) = out

C10_UndecodableSkipped == []C10_NoBinaryLine /\ [][C10_Step]_vars

\* r/b/k.py does not decode: it is warned about and not printed, r/b/skip,
\* the files of r/b/m.md and the next root r/.n.md are printed
C10_Witness ==
    /\ pc = "done"
    /\ exit_code = 0
    /\ paths = <<RootSub, RootFile>>
    /\ binary = {17}
    /\ err = << Warning("UnicodeDecodeError", PathOf[17]) >>
    /\ DocPaths(out) = << PathOf[16], PathOf[19], PathOf[20], PathOf[6] >>

\* the paths named on the command line and on standard input
Named == cfg.args \o cfg.stdin_paths
SomeMissing == \E k \in 1..Len(Named) : ~exists(Named[k])

(***************************************************************************)
(* C11.  A named path that does not exist is fatal before any output:      *)
(* whenever a path given as an argument or on standard input does not      *)
(* exist, the invocation does not end successfully and no line is ever     *)
(* given to the output, not even a document of a root that precedes it.    *)
(***************************************************************************)
C11_MissingPathAbortsBeforeOutput ==
    SomeMissing => (pc # "done" /\ out = <<>>)

\* the git commands that query the changed paths or read a file
DiffCalls == {"diff REF", "diff REF..HEAD", "diff --cached REF",
              "ls-files --others", "show"}
DiffQueried == \E k \in 1..Len(git_calls) : git_calls[k] \in DiffCalls

\* the phases of --since, as steps of pc
SincePhases ==
    { <<"start", "since">>, <<"start", "failed">>, <<"since", "validate">>,
      <<"since", "failed">>, <<"validate", "resolve">>,
      <<"validate", "failed">>, <<"resolve", "emit">>, <<"emit", "done">> }

(***************************************************************************)
(* C12.  With --since the phases run in the order repository check,        *)
(* reference validation, diff resolution, filtering, emission.  When the   *)
(* repository check or the reference validation fails the invocation ends  *)
(* with an error: no diff has been queried, the file of --output has not   *)
(* been opened and no line, the XML opening wrapper included, has been     *)
(* given to the output.                                                    *)
(***************************************************************************)
C12_State ==
    cfg.since_ref =>
        /\ pc = "failed" =>
              /\ ~DiffQueried
              /\ fp = "unopened"
              /\ out = <<>>
              /\ exit_code # 0
        /\ (~git.inside \/ ~git.ref_ok) =>
              /\ pc \notin {"resolve", "emit", "done"}
              /\ ~DiffQueried /\ fp = "unopened" /\ out = <<>>
        /\ ~git.inside => pc # "validate"
        /\ DiffQueried =>
              SubSeq(git_calls, 1, 3) = <<"rev-parse --is-inside-work-tree",
                                          "rev-parse --show-toplevel",
                                          "rev-parse --verify">>
        /\ (out # <<>> \/ fp # "unopened") => (pc = "done" /\ DiffQueried)
        /\ (rels # <<>>) => DiffQueried

C12_Step ==
    (cfg.since_ref /\ later' = later) => <<pc, pc'>> \in SincePhases

C12_SincePhasesInOrder == []C12_State /\ [][C12_Step]_vars

\* the reference is not valid, --cxml and --output are given: the run has
\* failed after the three rev-parse commands and nothing is written
C12_Witness ==
    /\ pc = "failed"
    /\ cfg.since_ref /\ cfg.claude_xml /\ cfg.output_file
    /\ git.inside /\ ~git.ref_ok
    /\ Len(git_calls) = 3
    /\ out = <<>>
    /\ exit_code = 1

\* --since has resolved and filtered the changed paths
Resolved == cfg.since_ref /\ pc \in {"emit", "done"}

\* the lines of the output that hold a file's content
ContentLines == SelectSeq(out, LAMBDA l : l.k = "content")

(***************************************************************************)
(* C13.  With --since and the committed scope every selected path differs  *)
(* between REF and HEAD: a file that is the same at REF and at HEAD, be it *)
(* untracked, staged or modified in the working tree, is never selected    *)
(* and never printed, whatever the state of the other paths.               *)
(***************************************************************************)
C13_CommittedScopeOnlyCommitted ==
    (cfg.since_ref /\ cfg.since_scope = "committed") =>
        /\ \A k \in 1..Len(rels) : Held(rels[k]).ref # Held(rels[k]).head
        /\ \A p \in AllGitPaths :
              Held(p).ref = Held(p).head => (~Emitted(p) /\ ~Warned(p))

\* r/a.py has a commit after REF, r/a/k.py a staged and an unstaged change:
\* r/a.py alone is printed
C13_Witness ==
    /\ pc = "done"
    /\ cfg.since_ref /\ cfg.since_scope = "committed"
    /\ git.status[PathOf[3]] = "committed"
    /\ git.status[PathOf[9]] = "staged_unstaged"
    /\ DocPaths(out) = << PathOf[3] >>

(***************************************************************************)
(* C14.  With --since and the staged scope the content printed for a path  *)
(* is the version of the index and not the working tree file: a file with  *)
(* a staged change and a further unstaged edit is printed in its staged    *)
(* version; a path that is not in the index (an untracked file) is never   *)
(* printed.  In the working and committed scopes the content is that of    *)
(* the working tree file.                                                  *)
(***************************************************************************)
C14_StagedContentFromIndex ==
    cfg.since_ref =>
        \A k \in 1..Len(ContentLines) :
            LET l == ContentLines[k]
                version == IF l.src = "index" THEN Held(l.path).index
                           ELSE Held(l.path).tree
            IN  /\ l.src \in {"index", "disk"}
                /\ version # 0
                /\ IF cfg.since_scope = "staged"
                   THEN /\ version = Held(l.path).index
                        /\ Held(l.path).index # Held(l.path).ref
                   ELSE version = Held(l.path).tree

\* r/a.py has a staged change and an unstaged edit on top of it, r/a/k.py is
\* untracked: r/a.py alone is printed, from the index
C14_Witness ==
    /\ pc = "done"
    /\ cfg.since_ref /\ cfg.since_scope = "staged"
    /\ git.status[PathOf[3]] = "staged_unstaged"
    /\ git.status[PathOf[9]] = "untracked"
    /\ Len(ContentLines) = 1
    /\ ContentLines[1].path = PathOf[3]
    /\ ContentLines[1].src = "index"

\* rel passes the restriction to the named paths and the filters
SincePasses(rel) == rel \in RestrictToPaths({rel}) /\ SinceKeeps(rel)

(***************************************************************************)
(* C15.  The changed paths are checked for existence on disk except in the *)
(* staged scope: in the working and committed scopes a path the diff       *)
(* reports that is no file on disk is dropped; in the staged scope a path  *)
(* whose staged content is in the index is selected, and printed from the  *)
(* index, also when no file of that name is on disk.                       *)
(***************************************************************************)
C15_ExistenceCheckExceptStaged ==
    Resolved =>
        IF cfg.since_scope = "staged"
        THEN \A p \in DiffCached :
                (Held(p).index # 0 /\ SincePasses(p)) =>
                    /\ \E k \in 1..Len(rels) : rels[k] = p
                    /\ pc = "done" => Emitted(p)
        ELSE \A k \in 1..Len(rels) : isfile(join(RepoRoot, rels[k]))

\* the states in which a file differs from REF in a commit, in the index or
\* in the working tree, or is untracked and not ignored
ChangedSomehow(p) ==
    \/ Held(p).ref # Held(p).head
    \/ Held(p).head # Held(p).index
    \/ Held(p).index # 0 /\ Held(p).index # Held(p).tree
    \/ Held(p).index = 0 /\ Held(p).tree # 0 /\ ~Held(p).ignored

Count(docs, p) == Len(SelectSeq(docs, LAMBDA d : d = p))

(***************************************************************************)
(* C16.  With --since and the working scope every file on disk that has a  *)
(* commit after REF, a staged change, an unstaged modification, or is      *)
(* untracked and not ignored is selected, and every selected path is       *)
(* printed exactly once, also when several sources report it.              *)
(***************************************************************************)
C16_WorkingScopeAllOnce ==
    (cfg.since_ref /\ cfg.since_scope = "working" /\ pc = "done") =>
        /\ \A p \in AllGitPaths :
              (/\ isfile(join(RepoRoot, p))
               /\ Lookup(join(RepoRoot, p)) \notin binary
               /\ ChangedSomehow(p)
               /\ SincePasses(p)) => Count(DocPaths(out), p) = 1
        /\ \A p \in AllGitPaths : Count(DocPaths(out), p) <= 1
        /\ \A k \in 1..Len(rels) : Count(rels, rels[k]) = 1

\* the absolute form of rel equals that of the named path or lies under it
UnderNamed(rel, named) ==
    LET r == join(RepoRoot, rel)
        a == abspath(named)
    IN  r = a \/ startswith(r, a \o <<"/">>)

(***************************************************************************)
(* C17.  With --since, when paths are named a changed path that passes the *)
(* filters is selected if and only if its absolute form equals, or lies    *)
(* under, the absolute form of at least one named path; when no path is    *)
(* named this step drops no changed path.                                  *)
(***************************************************************************)
C17_RestrictedToNamedPaths ==
    Resolved =>
        \A p \in _git_changed_paths_since(cfg.since_scope) :
            SinceKeeps(p) =>
                ((\E k \in 1..Len(rels) : rels[k] = p)
                    <=> (paths = <<>>
                         \/ \E k \in 1..Len(paths) : UnderNamed(p, paths[k])))

\* r/a is named; r/a.py and r/a/k.py are modified: r/a/k.py alone is printed
C17_Witness ==
    /\ pc = "done"
    /\ cfg.since_ref
    /\ paths = << RootA >>
    /\ PathOf[3] \in _git_changed_paths_since(cfg.since_scope)
    /\ PathOf[9] \in _git_changed_paths_since(cfg.since_scope)
    /\ DocPaths(out) = << PathOf[9] >>

\* the warnings about --ignore-gitignore in an error stream, and the rest
FlagWarnings(e) ==
    SelectSeq(e, LAMBDA w : w.k = "--ignore-gitignore is ignored")
OtherWarnings(e) ==
    SelectSeq(e, LAMBDA w : w.k # "--ignore-gitignore is ignored")

(***************************************************************************)
(* C18.  With --since the option --ignore-gitignore has no influence on    *)
(* the result: of two invocations that differ in that option alone, both   *)
(* select the same paths and give the same lines to the output, and the    *)
(* one with the option writes exactly one warning about it to the error    *)
(* stream, the other none.                                                 *)
(***************************************************************************)
C18_FlagHasNoInfluence ==
    (/\ prev.called
     /\ cfg.since_ref
     /\ prev.cfg = Flagged(cfg)
     /\ pc \in {"done", "failed"}) =>
        /\ out = prev.out
        /\ rels = prev.rels
        /\ exit_code = prev.exit_code
        /\ OtherWarnings(err) = OtherWarnings(prev.err)
        /\ Len(FlagWarnings(err)) = (IF cfg.ignore_gitignore THEN 1 ELSE 0)
        /\ Len(FlagWarnings(prev.err)) =
              (IF prev.cfg.ignore_gitignore THEN 1 ELSE 0)

\* r/a/.gitignore excludes k.py; the second invocation has the option and
\* prints r/a/k.py as the first one did
C18_Witness ==
    /\ pc = "done"
    /\ prev.called
    /\ cfg.since_ref /\ cfg.ignore_gitignore
    /\ prev.cfg = Flagged(cfg)
    /\ should_ignore(PathOf[9], read_gitignore(PathOf[7]))
    /\ Emitted(PathOf[9])
    /\ out = prev.out
    /\ Len(err) = 1 /\ prev.err = <<>>

\* what an os.walk iteration of process_path keeps of one directory name
\* and of one file name when .gitignore files are not honoured
WalkKeepsDir(d) == pattern_filter_dirs(hidden_filter(<<Tree[d].name>>)) # <<>>
WalkKeepsFile(f) ==
    extension_filter(pattern_filter_files(hidden_filter(<<Tree[f].name>>))) # <<>>

\* the traversal from the repository root comes to directory d
RECURSIVE WalkReaches(_)
WalkReaches(d) ==
    d = Cwd \/ (WalkKeepsDir(d) /\ WalkReaches(Tree[d].parent))

\* a traversal from the repository root prints file n
TraversalEmits(n) == WalkKeepsFile(n) /\ WalkReaches(Tree[n].parent)

(***************************************************************************)
(* C19.  --since applies the hidden, extension and explicit-pattern checks *)
(* of the directory traversal: a changed file is selected if and only if   *)
(* a traversal from the repository root that does not honour .gitignore    *)
(* files would print it.                                                   *)
(***************************************************************************)
C19_SinceFilterIsTraversalFilter ==
    Resolved =>
        \A p \in RestrictToPaths(_git_changed_paths_since(cfg.since_scope)) :
            (\E k \in 1..Len(rels) : rels[k] = p) <=> TraversalEmits(Lookup(p))

(***************************************************************************)
(* C20.  Selection is idempotent: when a process calls cli() twice with    *)
(* the same parameters over the same tree and repository, the second call  *)
(* gives the output the same lines in the same order as the first, and     *)
(* the same warnings; neither the ignore rules nor the document counter of *)
(* the first call change the second.                                       *)
(***************************************************************************)
C20_Idempotent ==
    (prev.called /\ prev.cfg = cfg) =>
        /\ (pc = "roots" /\ i = 1) =>
              (gitignore_rules = <<>> /\ global_index = 1)
        /\ pc \in {"done", "failed"} =>
              /\ out = prev.out
              /\ err = prev.err
              /\ rels = prev.rels
              /\ exit_code = prev.exit_code

\* r is printed twice as XML while r/a/.gitignore excludes k.py: the second
\* output is the first, numbered from 1 again
C20_Witness ==
    /\ pc = "done"
    /\ prev.called /\ prev.cfg = cfg
    /\ ~cfg.since_ref /\ cfg.claude_xml /\ Honoured
    /\ paths = << RootDir >>
    /\ should_ignore(PathOf[9], read_gitignore(PathOf[7]))
    /\ out = prev.out
    /\ Len(DocPaths(out)) > 1
    /\ \E k \in 1..Len(out) : out[k].k = "<document index>" /\ out[k].idx = 1

\* the indices the documents of a sequence of lines carry, in order
DocIndices(lines) ==
    LET heads == SelectSeq(lines, LAMBDA l : l.k = "<document index>")
    IN  [k \in 1..Len(heads) |-> heads[k].idx]

\* cli() is past its entry and has not failed
Running == pc \in {"roots", "walk", "since", "validate", "resolve", "emit", "done"}

(***************************************************************************)
(* C21.  With --cxml the document counter is set to 1 when cli() is        *)
(* entered and goes up by exactly one per printed document: the documents  *)
(* of one invocation carry the indices 1, 2, ..., n in the order they are  *)
(* printed, one index per document, without a gap or a repeat, over        *)
(* several roots and when files between them are skipped because they do   *)
(* not decode.                                                             *)
(***************************************************************************)
C21_State ==
    cfg.claude_xml =>
        /\ DocIndices(out) = [k \in 1..Len(DocPaths(out)) |-> k]
        /\ Running => global_index = Len(DocPaths(out)) + 1

C21_Step ==
    /\ (pc = "start" /\ pc' # "failed") => global_index' = 1
    /\ (cfg.claude_xml /\ pc # "start" /\ later' = later) =>
          global_index' = global_index + Len(DocPaths(NewLines))

C21_CounterRunsFromOne == []C21_State /\ [][C21_Step]_vars

\* r/.n.md then r/b as XML, r/b/k.py does not decode: four documents are
\* numbered 1 to 4, the skipped file between the first and the second
C21_Witness ==
    /\ pc = "done"
    /\ cfg.claude_xml
    /\ paths = << RootFile, RootSub >>
    /\ binary = {17}
    /\ Warned(PathOf[17])
    /\ DocPaths(out) = << PathOf[6], PathOf[16], PathOf[19], PathOf[20] >>
    /\ DocIndices(out) = << 1, 2, 3, 4 >>
    /\ global_index = 5

\* the content of a selected path can be read: git show finds the path in
\* the index in the staged scope, the working tree file decodes otherwise
Readable(rel) ==
    IF cfg.since_scope = "staged" THEN Held(rel).index # 0
    ELSE Lookup(join(RepoRoot, rel)) \notin binary

\* the warnings of an error stream about paths skipped by --since
SkipWarnings(e) == SelectSeq(e, LAMBDA w : w.k = "Unicode/Git error")

(***************************************************************************)
(* C22.  With --since, a selected path whose content cannot be read during *)
(* emission (the working tree file does not decode, or git show fails for  *)
(* the path) is skipped with one warning that names it: every other        *)
(* selected path is printed, in the order of selection, the closing        *)
(* </documents> is written with --cxml, and the invocation ends with       *)
(* success.                                                                *)
(***************************************************************************)
C22_State ==
    (cfg.since_ref /\ pc = "done") =>
        LET skipped == SelectSeq(rels, LAMBDA r : ~Readable(r))
        IN  /\ DocPaths(out) = SelectSeq(rels, Readable)
            /\ SkipWarnings(err) =
                   [k \in 1..Len(skipped) |->
                       Warning("Unicode/Git error", skipped[k])]
            /\ \A k \in 1..Len(skipped) : ~Emitted(skipped[k])
            /\ cfg.claude_xml =>
                   (out # <<>> /\ out[Len(out)] = CloseDocuments)
            /\ exit_code = 0

C22_Step == (pc = "emit" /\ later' = later) => pc' = "done"

C22_UnreadablePathSkipped == []C22_State /\ [][C22_Step]_vars

\* working scope, --cxml; r/a.py and r/a/k.py are selected and r/a.py does
\* not decode: r/a.py is warned about, r/a/k.py is printed after it and the
\* wrapper is closed
C22_Witness ==
    /\ pc = "done"
    /\ exit_code = 0
    /\ cfg.since_ref /\ cfg.since_scope = "working" /\ cfg.claude_xml
    /\ rels = << PathOf[3], PathOf[9] >>
    /\ binary = {3}
    /\ SkipWarnings(err) = << Warning("Unicode/Git error", PathOf[3]) >>
    /\ DocPaths(out) = << PathOf[9] >>
    /\ out[Len(out)] = CloseDocuments

\* a rule list with the rules at positions j and k exchanged
Swap(s, j, k) ==
    [m \in 1..Len(s) |-> IF m = j THEN s[k] ELSE IF m = k THEN s[j] ELSE s[m]]

\* rearrangements of a rule list: every exchange of two neighbouring rules
\* (the exchanges that every permutation is made of), the first rule
\* exchanged with the last, and the list backwards
Rearranged(s) ==
    {Swap(s, j, j + 1) : j \in 1..(Len(s) - 1)}
        \cup {Swap(s, 1, Len(s)), Reverse(s)}

\* a rule that ends with the path separator
TrailingSep(rule) == rule # <<>> /\ rule[Len(rule)] = "/"

(***************************************************************************)
(* C23.  should_ignore is an existential test that does not depend on the  *)
(* order of the rules.  For every entry of a visited directory and the     *)
(* rules in force there: the entry is ignored if and only if some rule     *)
(* matches its basename, or it is a directory and some rule matches its    *)
(* basename followed by the separator; a regular file is never ignored     *)
(* through a rule that ends with the separator, while a directory whose    *)
(* name with the separator appended matches such a rule is; and the        *)
(* answer is the same for the rules rearranged.                            *)
(***************************************************************************)
C23_IgnoreIsExistential ==
    Walking =>
        LET rules == extend_rules(Visited, gitignore_rules)
        IN  \A n \in Children(Visited) :
                LET p == join(Visited, Tree[n].name)
                IN  /\ should_ignore(p, rules) <=> RuleMatches(n, rules)
                    /\ \A q \in Rearranged(rules) :
                           should_ignore(p, q) <=> should_ignore(p, rules)
                    /\ IsFile(n) =>
                           (should_ignore(p, rules) <=>
                              should_ignore(p, SelectSeq(rules,
                                  LAMBDA r : ~TrailingSep(r))))
                    /\ (IsDir(n) /\ \E k \in 1..Len(rules) :
                            /\ TrailingSep(rules[k])
                            /\ fnmatch(Tree[n].name \o <<"/">>, rules[k]))
                         => should_ignore(p, rules)

\* r/.gitignore holds k.py and *d/ : the directories r/a/d and r/b/m.md are
\* pruned through the second rule, the file r/n.md, whose name *d matches,
\* is printed
C23_Witness ==
    /\ pc = "done"
    /\ paths = << RootDir >>
    /\ Honoured /\ cfg.extensions = <<>> /\ cfg.ignore_patterns = <<>>
    /\ gitignore_rules = << <<"k", ".", "p", "y">>, <<"*", "d", "/">>,
                            <<"#", "k">> >>
    /\ fnmatch(Tree[5].name, <<"*", "d">>)
    /\ Emitted(PathOf[5])
    /\ Emitted(PathOf[16])
    /\ ~Emitted(PathOf[11])
    /\ ~Emitted(PathOf[20])

\* a line that holds a pattern: not blank, not only whitespace, and no
\* comment, be the # at the start of the line or after whitespace
PatternLine(line) == strip(line) # <<>> /\ ~startswith(LStrip(line), <<"#">>)

\* the lines of the .gitignore of directory d, none when it has no such file
IgnoreLines(d) ==
    IF \E n \in IgnoreSlots : Tree[n].parent = d /\ gitignore_files[n].present
    THEN gitignore_files[CHOOSE n \in IgnoreSlots : Tree[n].parent = d].lines
    ELSE <<>>

\* one pattern per pattern line, in file order
PatternsOf(d) ==
    LET kept == SelectSeq(IgnoreLines(d), PatternLine)
    IN  [k \in 1..Len(kept) |-> strip(kept[k])]

(***************************************************************************)
(* C24.  Loading the .gitignore of a directory gives one pattern per       *)
(* non-empty, non-comment line, in file order, and the empty list when the *)
(* directory has no .gitignore: no blank line, no line of whitespace and   *)
(* no comment line, a comment line that begins with whitespace included,   *)
(* ever becomes a rule, and no invocation fails other than for a path that *)
(* does not exist.                                                         *)
(***************************************************************************)
C24_RulesArePatternLines ==
    /\ Walking => read_gitignore(Visited) = PatternsOf(Lookup(Visited))
    /\ \A k \in 1..Len(gitignore_rules) :
          /\ strip(gitignore_rules[k]) # <<>>
          /\ ~startswith(gitignore_rules[k], <<"#">>)
    /\ (~cfg.since_ref /\ pc = "failed") => SomeMissing

\* how many lines of a sequence of lines are the line l
Occurrences(lines, l) == Len(SelectSeq(lines, LAMBDA x : x = l))

(***************************************************************************)
(* C25.  With --cxml the output of every invocation that ends with success *)
(* is a well-formed wrapper: exactly one <documents> line, which is the    *)
(* first line, and exactly one </documents> line, which is the last, with  *)
(* every document between them; for every list of roots of a traversal,    *)
(* the empty list and a list in which the first root occurs again          *)
(* included, and for every selection of --since, the empty one included.   *)
(***************************************************************************)
C25_WrapperWellFormed ==
    (cfg.claude_xml /\ pc = "done") =>
        /\ Occurrences(out, OpenDocuments) = 1
        /\ Occurrences(out, CloseDocuments) = 1
        /\ out[1] = OpenDocuments
        /\ out[Len(out)] = CloseDocuments

(***************************************************************************)
(* C26.  --include-hidden is monotone for the traversal of a directory: of *)
(* two invocations over the same tree that differ in that option alone,    *)
(* every file the one without the option prints is printed by the one      *)
(* with it; the option adds hidden files and the files below hidden        *)
(* directories and removes none.                                           *)
(***************************************************************************)
C26_IncludeHiddenMonotone ==
    (/\ prev.called
     /\ ~cfg.since_ref
     /\ cfg.include_hidden
     /\ prev.cfg = Unhidden(cfg)
     /\ \A k \in 1..Len(cfg.args) : isdir(cfg.args[k])
     /\ pc = "done") =>
        \A k \in 1..Len(DocPaths(prev.out)) : Emitted(DocPaths(prev.out)[k])
====
